---- MODULE Spec2Model ----
(***************************************************************************)
(* A model of ikernel_remote/kernel.py: the prompt scanner                 *)
(* (get_password, check_password), the tunnel builder (tunnel_cmd,         *)
(* tunnel_hosts_cmd, tunnel_connection, check_tunnels) and the keep-alive  *)
(* loop of RemoteIKernel (keep_alive), and the launch: RemoteIKernel's      *)
(* __init__ with the five launch_* methods, _spawn, start_kernel and the   *)
(* call of keep_alive in start_remote_kernel.                              *)
(*                                                                         *)
(* Text is a sequence of tokens.  A token stands for the piece of text the *)
(* two regular expressions of check_password can tell apart:               *)
(*   "E"  the literal  'Enter passphrase '                                 *)
(*   "c"  a colon ':'                                                      *)
(*   "a"  an at sign '@'                                                   *)
(*   "W"  the literal  ' password:'   (it ends with a colon)               *)
(*   "x", "y"  any other character except a line break                     *)
(*   "n"  a line break (the one character '.' does not match)              *)
(***************************************************************************)
EXTENDS Integers, Sequences, FiniteSets, TLC

VARIABLES
    \* ---- the environment of the process
    SSH_ASKPASS,      \* os.environ: "unset", or "set" to a program that prints the secret
    \* ---- check_password run on one connection (specification SpecCP)
    cpPrompts,        \* the prompts the session emits, in order
    cpStream,         \* output of the session not yet returned by a read
    cpReads,          \* the chunks read_nonblocking has returned so far
    cpSent,           \* the lines check_password has sent with sendline
    cpPc,             \* "read" (in the loop), "returned", "raised"
    cpExc,            \* the exception that left check_password, or "none"
    cpLast,           \* what the last loop iteration did with the text it read
    \* ---- a constructed RemoteIKernel under keep_alive (specification Spec)
    host,             \* self.host, as its ':'-separated fields
    tunnel_hosts,     \* self.tunnel_hosts, each host as its ':'-separated fields
    connection_info,  \* self.connection_info: the five ports
    caller_info,      \* the mapping the caller passed as connection_info
    connAlive,        \* self.connection.isalive()
    connOut,          \* lines the session has written and nobody has read
    procs,            \* every process pexpect.spawn has started for the tunnels
    tunnels,          \* self.tunnels: "tunnel" |-> index into procs, or empty
    pc,               \* where keep_alive is
    exc,              \* the exception that left keep_alive, or "none"
    errlog,           \* lines reported with log.error
    ctlc,             \* Ctrl-C characters sent to the session
    sigints,          \* interrupt signals delivered to the supervisor
    tick,             \* what the current iteration of the loop has done so far
    \* ---- RemoteIKernel.__init__ called by start_remote_kernel (specification SpecLaunch)
    interface,        \* self.interface
    cpus,             \* self.cpus
    mem,              \* self.mem, "None" or a size
    time,             \* self.time, "None" or a duration
    launch_args,      \* self.launch_args, "" or the extra arguments
    kernel_cmd,       \* self.kernel_cmd: its text, and whether it names {host_connection_file}
    precmd,           \* self.precmd, "" or a command
    tunnel,           \* self.tunnel
    connection,       \* self.connection: the process _spawn started, the lines sent to
                      \* it, and how many processes _spawn has started (n = 0: None)
    sshfs_proc,       \* self.sshfs_proc: "None", or the ncat listener "running" or "killed"
    events,           \* the stages of the launch reached so far, in order
    lpc,              \* where __init__ / start_remote_kernel is
    lexc,             \* the exception that left __init__, or "none"
    connection_file,  \* self.connection_file: "None" or a path
    _delcf,           \* self._delcf: the connection file did not exist before
    cf_on_disk,       \* whether a file exists at the path of the connection file
    dialogue,         \* what the program read from and answered to its session, in order
    service           \* the remote kernel: "none", "running" or "exited"

cpVars == <<cpPrompts, cpStream, cpReads, cpSent, cpPc, cpExc, cpLast>>

lnVars == <<interface, cpus, mem, time, launch_args, kernel_cmd, precmd, tunnel,
            connection, sshfs_proc, events, lpc, lexc, connection_file, _delcf,
            cf_on_disk, dialogue, service>>

objVars == <<host, tunnel_hosts, connection_info, caller_info, lnVars>>

kaVars == <<connAlive, connOut, procs, tunnels, pc, exc, errlog, ctlc, sigints, tick>>

vars == <<SSH_ASKPASS, cpVars, objVars, kaVars>>

\* ---------------------------------------------------------------- bounds

\* the most prompts one session emits during authentication
MaxPrompts == 2

\* ------------------------------------------------------------------ text

Token == {"E", "c", "a", "W", "x", "y", "n"}

\* the tokens whose text ends with ':'
EndsWithColon(t) == t \in {"c", "W"}

\* no line break in s[i..j]: what '.*' can run over
SameLine(s, i, j) == \A k \in i..j : s[k] # "n"

Min(S) == CHOOSE m \in S : \A k \in S : m <= k

Max(S) == CHOOSE m \in S : \A k \in S : m >= k

\* re.search('Enter passphrase .*:', text).group(), <<>> for no match:
\* the leftmost 'Enter passphrase ', then greedily to the last ':' of its line.
re_passphrase(text) ==
    LET starts == {i \in 1..Len(text) :
                      /\ text[i] = "E"
                      /\ \E j \in (i+1)..Len(text) :
                            EndsWithColon(text[j]) /\ SameLine(text, i, j)}
    IN  IF starts = {} THEN <<>>
        ELSE LET i == Min(starts)
                 j == Max({k \in (i+1)..Len(text) :
                              EndsWithColon(text[k]) /\ SameLine(text, i, k)})
             IN  SubSeq(text, i, j)

\* the pattern without its leading '.*': the match starts at the '@'
re_passwordFromAt(text) ==
    LET ends(b) == {j \in (b+1)..Len(text) : text[j] = "W" /\ SameLine(text, b, j)}
        starts == {b \in 1..Len(text) : text[b] = "a" /\ ends(b) # {}}
    IN  IF starts = {} THEN <<>>
        ELSE LET b == Min(starts)
             IN  SubSeq(text, b, Max(ends(b)))

\* re.search('.*@.* password:', text).group(), <<>> for no match: the leftmost
\* start is the beginning of the first line that holds an '@' followed by
\* ' password:'; greedily to the last such ' password:' of that line.
re_password(text) ==
    LET ends(b) == {j \in b..Len(text) :
                       /\ text[j] = "W"
                       /\ SameLine(text, b, j)
                       /\ \E i \in b..(j-1) : text[i] = "a"}
        starts == {b \in 1..Len(text) : ends(b) # {}}
    IN  IF starts = {} THEN <<>>
        ELSE LET b == Min(starts)
             IN  SubSeq(text, b, Max(ends(b)))

\* ----------------------------------------------------------- get_password

\* what the askpass program prints for a prompt
Secret(prompt) == [secret_for |-> prompt]

NoLine == [secret_for |-> <<>>]

\* a fallback to an empty password when no askpass program is configured
get_passwordOrEmpty(prompt, env) ==
    [exc |-> "none", password |-> Secret(IF env = "set" THEN prompt ELSE <<>>)]

get_password(prompt, env) ==
    IF env = "set" THEN [exc |-> "none", password |-> Secret(prompt)]
    ELSE [exc |-> "RuntimeError", password |-> NoLine]

\* --------------------------------------------------------- check_password

\* A result of connection.read_nonblocking(99999): text, pexpect.TIMEOUT
\* (nothing arrived within the timeout) or pexpect.EOF (the child has exited
\* and nothing is left to read).
ReadText(text) == [r |-> "text", text |-> text]

ReadTimeout == [r |-> "TIMEOUT", text |-> <<>>]

ReadEOF == [r |-> "EOF", text |-> <<>>]

\* get_password(group) followed by connection.sendline(secret)
AnswerPrompt(kind, group, env) ==
    LET got == get_password(group, env)
    IN  IF got.exc # "none"
        THEN [op |-> "raise", exc |-> got.exc, kind |-> kind, line |-> NoLine]
        ELSE [op |-> "sendline", exc |-> "none", kind |-> kind, line |-> got.password]

\* the two branches in the other order
ScanTextPasswordFirst(text, env) ==
    IF re_password(text) # <<>>
    THEN AnswerPrompt("password", re_password(text), env)
    ELSE IF re_passphrase(text) # <<>>
    THEN AnswerPrompt("passphrase", re_passphrase(text), env)
    ELSE [op |-> "return", exc |-> "none", kind |-> "none", line |-> NoLine]

\* the if / elif / else on the two matches: the passphrase pattern goes first
ScanText(text, env) ==
    IF re_passphrase(text) # <<>>
    THEN AnswerPrompt("passphrase", re_passphrase(text), env)
    ELSE IF re_password(text) # <<>>
    THEN AnswerPrompt("password", re_password(text), env)
    ELSE [op |-> "return", exc |-> "none", kind |-> "none", line |-> NoLine]

\* One iteration of the `while True` of check_password on one read result.
\* op: "sendline" (a line was sent, loop again), "return", "raise".
CheckPasswordIteration(read, env) ==
    IF read.r = "TIMEOUT"
    THEN [op |-> "return", exc |-> "none", kind |-> "none", line |-> NoLine]
    ELSE IF read.r = "EOF"
    THEN [op |-> "raise", exc |-> "EOF", kind |-> "none", line |-> NoLine]
    ELSE ScanText(read.text, env)

\* check_password(connection) on a connection whose reads return `reads` in
\* order (nothing more arrives after them: a further read times out).
\* sent: the lines sent; exc: the exception raised, "none" on a return.
RECURSIVE check_password(_, _)
check_password(reads, env) ==
    IF reads = <<>> THEN [sent |-> <<>>, exc |-> "none"]
    ELSE LET it == CheckPasswordIteration(Head(reads), env)
         IN  IF it.op = "sendline"
             THEN LET rest == check_password(Tail(reads), env)
                  IN  [sent |-> <<it.line>> \o rest.sent, exc |-> rest.exc]
             ELSE [sent |-> <<>>, exc |-> it.exc]

\* ------------------------------------------------ prompts and sequences

\* the prompts of the spec's scenario: a key passphrase and two passwords
PassphrasePrompt == <<"E", "x", "c">>

PasswordPromptX == <<"x", "a", "W">>

PasswordPromptY == <<"y", "a", "W">>

Prompts == {PassphrasePrompt, PasswordPromptX, PasswordPromptY}

RECURSIVE SeqsUpTo(_, _)
SeqsUpTo(S, n) ==
    IF n = 0 THEN {<<>>}
    ELSE LET shorter == SeqsUpTo(S, n - 1)
         IN  shorter \cup {Append(s, e) : s \in {q \in shorter : Len(q) = n - 1}, e \in S}

\* the session's output for a sequence of prompts: ssh ends the line of an
\* answered prompt before it prints the next one
RECURSIVE StreamOf(_)
StreamOf(ps) ==
    IF ps = <<>> THEN <<>>
    ELSE IF Len(ps) = 1 THEN Head(ps)
    ELSE Head(ps) \o <<"n">> \o StreamOf(Tail(ps))

\* ------------------------------------------------ the tunnel command lines

\* All the ports that need to be forwarded
PORT_NAMES == <<"hb_port", "shell_port", "iopub_port", "stdin_port", "control_port">>

\* ':' in h, for a host given as its ':'-separated fields
HasPort(h) == Len(h) > 1

\* RemoteIKernel.tunnel_hosts_cmd: the ssh command through the middle hosts,
\* None for no tunnel hosts.  jumps: the hosts of '-J'; p: the '-p' port.
tunnel_hosts_cmd(hops) ==
    IF hops = <<>> THEN [none |-> TRUE, jumps |-> <<>>, p |-> "", to |-> ""]
    ELSE LET last == hops[Len(hops)]
         IN  [none |-> FALSE,
              jumps |-> SubSeq(hops, 1, Len(hops) - 1),
              p |-> IF HasPort(last) THEN last[2] ELSE "",
              to |-> last[1]]

\* one '-L' of the mutated tunnel command: every port to the heartbeat port
port_forwardToFirst(info, port) ==
    [bind_addr |-> "127.0.0.1", bind |-> info[port],
     to_addr |-> "127.0.0.1", to |-> info[PORT_NAMES[1]]]

\* "-L 127.0.0.1:{port}:127.0.0.1:{port}" formatted with the connection info
port_forward(info, port) ==
    [bind_addr |-> "127.0.0.1", bind |-> info[port],
     to_addr |-> "127.0.0.1", to |-> info[port]]

\* RemoteIKernel.tunnel_cmd formatted with the connection info: one ssh that
\* forwards every port of PORT_NAMES from 127.0.0.1:port to 127.0.0.1:port.
tunnel_cmd(h, hops, info) ==
    [p |-> IF HasPort(h) THEN h[2] ELSE "",
     jumps |-> hops,
     forwards |-> [i \in 1..Len(PORT_NAMES) |-> port_forward(info, PORT_NAMES[i])],
     host |-> h[1],
     remote |-> "sleep 600"]

\* the bare connection of tunnel_connection: '{pre} ssh {host}', host as given
preaccept_cmd(h, hops) == [pre |-> tunnel_hosts_cmd(hops), host |-> h]

\* ------------------------------------------------------ tunnel_connection

ExitLine == [secret_for |-> <<"exit">>]

\* self.tunnels['tunnel'] = tunnel
StoreTunnelIfAbsent(tun, idx) ==
    [k \in DOMAIN tun \cup {"tunnel"} |-> IF k \in DOMAIN tun THEN tun[k] ELSE idx]

StoreTunnel(tun, idx) ==
    [k \in DOMAIN tun \cup {"tunnel"} |-> IF k = "tunnel" THEN idx ELSE tun[k]]

\* the new tunnel process exits during the set-up: its output ends with EOF
Exits(script) == script # <<>> /\ script[Len(script)].r = "EOF"

\* a bare connection whose spawn object is kept in a name
bare_connectionKept(h, hops) ==
    [kind |-> "preaccept", alive |-> TRUE, cmd |-> preaccept_cmd(h, hops),
     sent |-> <<ExitLine>>]

\* `pexpect.spawn('{pre} ssh -o StrictHostKeyChecking=no {host}').sendline('exit')`:
\* the process after the statement.  The spawn object is a temporary that no
\* name holds, so it is collected when the statement ends, and the finalizer
\* of its pty process closes the pty and terminates the child.
bare_connection(h, hops) ==
    [kind |-> "preaccept", alive |-> FALSE, cmd |-> preaccept_cmd(h, hops),
     sent |-> <<ExitLine>>]

\* RemoteIKernel.tunnel_connection, the new tunnel process answering the reads
\* of check_password with `script`.  The bare connection is spawned and sent
\* 'exit'; the tunnel is spawned and stored only if check_password returns.
tunnel_connection(prs, tun, h, hops, info, env, script) ==
    LET pre == bare_connection(h, hops)
        auth == check_password(script, env)
        new == [kind |-> "tunnel", alive |-> ~Exits(script),
                cmd |-> tunnel_cmd(h, hops, info), sent |-> auth.sent]
        all == prs \o <<pre, new>>
    IN  [procs |-> all,
         tunnels |-> IF auth.exc = "none" THEN StoreTunnel(tun, Len(all)) ELSE tun,
         exc |-> auth.exc]

\* ------------------------------------------------- the launch command lines

\* self.host is None
NoHost == <<>>

\* interfaces __init__ dispatches on
Interfaces == {"local", "pbs", "sge", "ssh", "slurm"}

\* the interfaces that ask a job scheduler for a node
Schedulers == {"pbs", "sge", "slurm"}

\* one resource option of a command line: the parameter it carries, the text
\* of its flag and the formatted value
Opt(param, flag, value) == [param |-> param, flag |-> flag, value |-> value]

\* `if self.cpus > 1`, `if self.mem is not None`, `if self.time is not None`
OptIf(cond, opt) == IF cond THEN <<opt>> ELSE <<>>

\* launch_local: '/bin/bash {launch_args}'
local_cmd(c, m, t, args) == [prog |-> "/bin/bash", opts |-> <<>>, args |-> args]

\* launch_ssh: 'ssh -R {pr}:localhost:{pl} -o StrictHostKeyChecking=no {args} {host}'
login_cmd(c, m, t, args, h) ==
    [prog |-> "ssh -R", opts |-> <<>>, args |-> args, host |-> h]

\* a qsub command that always asks for ncpus
pbs_cmdAlwaysCpus(c, m, t, args) ==
    [prog |-> "qsub -I",
     opts |-> <<Opt("cpus", "ncpus=", ToString(c))>>
              \o OptIf(m # "None", Opt("mem", "mem=", m))
              \o OptIf(t # "None", Opt("time", "walltime=", t)),
     name |-> "ikernel_remote", args |-> args]

\* launch_pbs: 'qsub -I {-l ncpus=..,mem=..,walltime=..} -N ikernel_remote {args}'
pbs_cmd(c, m, t, args) ==
    [prog |-> "qsub -I",
     opts |-> OptIf(c > 1, Opt("cpus", "ncpus=", ToString(c)))
              \o OptIf(m # "None", Opt("mem", "mem=", m))
              \o OptIf(t # "None", Opt("time", "walltime=", t)),
     name |-> "ikernel_remote", args |-> args]

\* launch_sge: 'qlogin -now n {-pe pe cpus} {-l h_vmem=..,h_rt=..} -N ikernel_remote {args}'
sge_cmd(c, m, t, args) ==
    [prog |-> "qlogin -now n",
     opts |-> OptIf(c > 1, Opt("cpus", "-pe", ToString(c)))
              \o OptIf(m # "None", Opt("mem", "h_vmem=", m))
              \o OptIf(t # "None", Opt("time", "h_rt=", t)),
     name |-> "ikernel_remote", args |-> args]

\* launch_slurm: 'srun{ --cpus-per-task ..}{ --mem ..}{ --time ..} -J ikernel_remote {args} -v -u bash -i'
srun_cmd(c, m, t, args) ==
    [prog |-> "srun",
     opts |-> OptIf(c > 1, Opt("cpus", "--cpus-per-task", ToString(c)))
              \o OptIf(m # "None", Opt("mem", "--mem", m))
              \o OptIf(t # "None", Opt("time", "--time", t)),
     name |-> "ikernel_remote", args |-> args, shell |-> "-v -u bash -i"]

\* the command line the launch_* method of an interface builds
launch_cmd(i, c, m, t, args, h) ==
    CASE i = "local" -> local_cmd(c, m, t, args)
      [] i = "ssh"   -> login_cmd(c, m, t, args, h)
      [] i = "pbs"   -> pbs_cmd(c, m, t, args)
      [] i = "sge"   -> sge_cmd(c, m, t, args)
      [] i = "slurm" -> srun_cmd(c, m, t, args)

\* ------------------------------------------------------------------ _spawn

\* self.connection = None
NoConnection == [n |-> 0, alive |-> FALSE, cmd |-> [prog |-> "None"], sent |-> <<>>]

\* a _spawn that starts a process for every command
_spawnAlways(conn, command) ==
    [n |-> conn.n + 1, alive |-> TRUE, cmd |-> command, sent |-> <<>>]

\* RemoteIKernel._spawn: pexpect.spawn if there is no connection yet, else
\* sendline into the connection
_spawn(conn, command) ==
    IF conn.n = 0
    THEN [n |-> 1, alive |-> TRUE, cmd |-> command, sent |-> <<>>]
    ELSE [conn EXCEPT !.sent = Append(@, command)]

\* conn.sendline(line) for each line of `lines`
sendlines(conn, lines) == [conn EXCEPT !.sent = @ \o lines]

\* ------------------------------------------------- the scheduler's output
\* Output of qlogin as tokens: "B" the literal 'Establishing builtin session
\* to host ', "H" the name of the allocated host, "s" a space, "." a dot,
\* "x" any other character, "n" a line break.  pexpect compiles its patterns
\* with re.DOTALL, so the '.' of a pattern matches every token.

\* the most characters after the banner in the buffer expect() searches
MaxTrail == 4

SgeBanner == <<"B", "H", "s", ".", ".", ".">>

SgeOutputs ==
    {SgeBanner \o trail : trail \in SeqsUpTo({"s", "x", "n"}, MaxTrail)} \cup {<<"x">>}

\* re.search('Establishing builtin session to host (.*) ...', text): the
\* group is greedy, and ' ...' is a space and any three characters
sge_pattern(text) ==
    LET starts == {i \in 1..Len(text) : text[i] = "B"}
        i == IF starts = {} THEN 0 ELSE Min(starts)
        ends == {j \in (i + 1)..Len(text) : text[j] = "s" /\ j + 3 <= Len(text)}
    IN  IF i = 0 \/ ends = {} THEN [found |-> FALSE, group |-> <<>>]
        ELSE [found |-> TRUE, group |-> SubSeq(text, i + 1, Max(ends) - 1)]

\* the node name the scanners of launch_pbs and launch_slurm extract
SchedulerNode == <<"node7">>

\* ------------------------------------------------------------ start_kernel

Line(kind) == [line |-> kind]

\* start_kernel with the transient file removed before the service command
start_kernel_linesRemoveFirst(kcmd, pre) ==
    <<Line("cd")>>
    \o (IF kcmd.hcf THEN <<Line("mkdir -p"), Line("rm -f"), Line("echo >")>> ELSE <<>>)
    \o (IF pre # "" THEN <<Line(pre)>> ELSE <<>>)
    \o (IF kcmd.hcf THEN <<Line("rm -f")>> ELSE <<>>)
    \o <<[line |-> "kernel_init", text |-> kcmd.text]>>
    \o <<Line("exit")>>

\* the lines start_kernel sends, in order
start_kernel_lines(kcmd, pre) ==
    <<Line("cd")>>
    \o (IF kcmd.hcf THEN <<Line("mkdir -p"), Line("rm -f"), Line("echo >")>> ELSE <<>>)
    \o (IF pre # "" THEN <<Line(pre)>> ELSE <<>>)
    \o <<[line |-> "kernel_init", text |-> kcmd.text]>>
    \o (IF kcmd.hcf THEN <<Line("rm -f")>> ELSE <<>>)
    \o <<Line("exit")>>

\* [\w.-]: a word of the echoed command, the name the compute node prints, the
\* name of the submission node
PbsHostChars == {"w", "N", "S"}

\* the terminal's echo of the line sent: 'echo ', 'Running on ', a backquote,
\* 'hostname', a backquote, the end of the line
EchoedQuery == <<"e", "R", "q", "w", "q", "n">>

\* what the shell of the job prints for the line: 'Running on ', the name of
\* the compute node, the end of the line
PbsReply == <<"R", "N", "n">>

\* a shell prompt that carries the name of the submission node
SubmitPrompt == <<"S", "p">>

\* what the session can write after the ready notice
PbsStreams ==
    {pre \o echo \o reply : pre \in {<<>>, SubmitPrompt}, echo \in {<<>>, EchoedQuery},
                            reply \in {<<>>, PbsReply}}

\* what expect() has in its buffer when it matches or gives up
PbsOutputs == UNION {{SubSeq(t, 1, k) : k \in 0..Len(t)} : t \in PbsStreams}

\* whether the buffer holds the terminal's echo of the query
Echoed(text) == IF \E i \in 1..Len(text) : text[i] = "e" THEN <<"echo">> ELSE <<>>

\* a pattern that lets a backquote stand before the name
pbs_patternAfterQuote(text) ==
    LET starts == {i \in 1..Len(text) - 1 :
                      /\ text[i] = "R"
                      /\ \/ text[i + 1] \in PbsHostChars
                         \/ text[i + 1] = "q" /\ i + 2 <= Len(text)
                                              /\ text[i + 2] \in PbsHostChars}
    IN  IF starts = {} THEN [found |-> FALSE, group |-> <<>>]
        ELSE LET i == Min(starts)
                 b == IF text[i + 1] = "q" THEN i + 2 ELSE i + 1
             IN  [found |-> TRUE, group |-> <<text[b]>>]

\* `qsub_i.expect('Running on ([\w.-]+)')` on the buffer `text`: the leftmost
\* 'Running on ' that a name character follows, the group the longest run of
\* name characters after it
pbs_pattern(text) ==
    LET starts == {i \in 1..Len(text) - 1 : text[i] = "R" /\ text[i + 1] \in PbsHostChars}
    IN  IF starts = {} THEN [found |-> FALSE, group |-> <<>>]
        ELSE LET i == Min(starts)
                 ends == {j \in i + 1..Len(text) :
                             \A k \in i + 1..j : text[k] \in PbsHostChars}
             IN  [found |-> TRUE, group |-> SubSeq(text, i + 1, Max(ends))]

\* no RemoteIKernel is being constructed
LaunchIdle ==
    /\ interface = "off"
    /\ cpus = 1
    /\ mem = "None"
    /\ time = "None"
    /\ launch_args = ""
    /\ kernel_cmd = [text |-> "", hcf |-> FALSE]
    /\ precmd = ""
    /\ tunnel = FALSE
    /\ connection = NoConnection
    /\ sshfs_proc = "None"
    /\ events = <<>>
    /\ lpc = "off"
    /\ lexc = "none"
    /\ dialogue = <<>>
    /\ service = "none"

\* -------------------------------------------------------------- keep_alive

\* the most lines of session output waiting to be read
MaxOut == 1

\* the most interrupt signals delivered to the supervisor
MaxInterrupts == 1

\* the most processes spawned for tunnels (two per build)
MaxProcs == 6

\* the most reads the new tunnel process answers with text
MaxTunnelReads == 1

\* what a new tunnel process can write before it falls silent or exits
TunnelChunks == {PasswordPromptX, <<"x">>}

TunnelScripts ==
    {Append(body, end) :
        body \in {[i \in 1..Len(q) |-> ReadText(q[i])] : q \in SeqsUpTo(TunnelChunks, MaxTunnelReads)},
        end \in {ReadTimeout, ReadEOF}}

NewTick == [session |-> "unchecked", tunnel |-> "unchecked", rebuilt |-> FALSE,
            failure |-> "none", read |-> "none", drained |-> <<>>,
            script |-> <<>>]

\* `if line.strip()`
NonBlank(line) == line # "blank"

\* the launches keep_alive is run after: the interface's host, the jump
\* hosts, and whether __init__ built a tunnel
Launches ==
    {[host |-> <<"node1">>, tunnel_hosts |-> <<>>, tunnel |-> TRUE,
      connection_file |-> "None", exists |-> FALSE],
     [host |-> <<"node1", "2222">>, tunnel_hosts |-> << <<"gw", "22">> >>, tunnel |-> TRUE,
      connection_file |-> "kernel-1.json", exists |-> TRUE],
     [host |-> <<"localhost">>, tunnel_hosts |-> <<>>, tunnel |-> FALSE,
      connection_file |-> "kernel-1.json", exists |-> FALSE]}

Ports == [p \in {PORT_NAMES[i] : i \in 1..Len(PORT_NAMES)} |->
             10000 + CHOOSE i \in 1..Len(PORT_NAMES) : PORT_NAMES[i] = p]

\* the connection file a previous session of the same kernel left behind
StoredInfo == [p \in DOMAIN Ports |-> Ports[p] + 10000]

\* `loaded = {}`
EmptyInfo == [p \in {} |-> 0]

\* `self.connection_info = loaded.copy(); self.connection_info.update(connection_info)`
Updated(loaded, info) ==
    [p \in DOMAIN loaded \cup DOMAIN info |-> IF p \in DOMAIN info THEN info[p] ELSE loaded[p]]

\* a constructor that merges the stored file into the mapping it was given
load_connection_infoInPlace(file, exists, stored, info) ==
    LET loaded == IF exists THEN stored ELSE EmptyInfo
    IN  [self |-> Updated(info, loaded), caller |-> Updated(info, loaded),
         delcf |-> file # "None" /\ ~exists, on_disk |-> exists \/ file # "None"]

\* __init__, `if connection_file is not None: ... else: self.connection_info =
\* connection_info`: the mapping the object keeps, the caller's mapping
\* afterwards, self._delcf, and whether the file is on disk.  `stored` is what
\* json.load returns for an existing file ({} when it cannot be parsed); the
\* json.dump that rewrites or creates the file is taken to succeed.
load_connection_info(file, exists, stored, info) ==
    IF file # "None"
    THEN LET loaded == IF exists THEN stored ELSE EmptyInfo
             delcf == ~exists
             merged == Updated(loaded, info)
         IN  [self |-> merged, caller |-> info, delcf |-> delcf,
              on_disk |-> exists \/ delcf \/ merged # loaded]
    ELSE [self |-> info, caller |-> info, delcf |-> FALSE, on_disk |-> exists]

\* no connection file is in play
NoConnectionFile ==
    /\ connection_file = "None"
    /\ _delcf = FALSE
    /\ cf_on_disk = FALSE

EmptyTunnels == [k \in {} |-> 0]

CPIdle ==
    /\ cpPrompts = <<>>
    /\ cpStream = <<>>
    /\ cpReads = <<>>
    /\ cpSent = <<>>
    /\ cpPc = "off"
    /\ cpExc = "none"
    /\ cpLast = [text |-> <<>>, op |-> "none", kind |-> "none", sentBefore |-> 0]

\* The object after __init__ returned, keep_alive at its first line.
Init ==
    /\ SSH_ASKPASS \in {"unset", "set"}
    /\ CPIdle
    /\ LaunchIdle
    /\ \E l \in Launches :
          /\ host = l.host
          /\ tunnel_hosts = l.tunnel_hosts
          /\ LET given == load_connection_info(l.connection_file, l.exists, StoredInfo, Ports)
             IN  /\ connection_info = given.self
                 /\ caller_info = given.caller
                 /\ connection_file = l.connection_file
                 /\ _delcf = given.delcf
                 /\ cf_on_disk = given.on_disk
          /\ LET built == tunnel_connection(<<>>, EmptyTunnels, l.host, l.tunnel_hosts,
                                            Ports, SSH_ASKPASS, <<ReadTimeout>>)
             IN  IF l.tunnel
                 THEN procs = built.procs /\ tunnels = built.tunnels
                 ELSE procs = <<>> /\ tunnels = EmptyTunnels
    /\ connAlive = TRUE
    /\ connOut = <<>>
    /\ pc = "sleep"
    /\ exc = "none"
    /\ errlog = <<>>
    /\ ctlc = 0
    /\ sigints = 0
    /\ tick = NewTick

\* time.sleep(timeout)
Sleep ==
    /\ pc = "sleep"
    /\ pc' = "loop"
    /\ UNCHANGED <<SSH_ASKPASS, cpVars, objVars, connAlive, connOut, procs, tunnels,
                   exc, errlog, ctlc, sigints, tick>>

\* `break` after the remaining output was reported
AfterDrainNoBreak == "check_tunnels"

AfterDrain == "done"

\* `if not self.connection.isalive()`: report what is left to read, break
SessionDied ==
    /\ pc = "loop"
    /\ ~connAlive
    /\ errlog' = errlog \o SelectSeq(connOut, NonBlank)
    /\ connOut' = <<>>
    /\ pc' = AfterDrain
    /\ tick' = [NewTick EXCEPT !.session = "dead", !.read = "drain",
                               !.drained = connOut]
    /\ UNCHANGED <<SSH_ASKPASS, cpVars, objVars, connAlive, procs, tunnels, exc,
                   ctlc, sigints>>

\* the session is alive: on to check_tunnels
SessionAlive ==
    /\ pc = "loop"
    /\ connAlive
    /\ pc' = "check_tunnels"
    /\ tick' = [NewTick EXCEPT !.session = "alive"]
    /\ UNCHANGED <<SSH_ASKPASS, cpVars, objVars, connAlive, connOut, procs, tunnels,
                   exc, errlog, ctlc, sigints>>

\* `not self.tunnels['tunnel'].isalive()`
TunnelIsDeadAlways(prs, tun) == TRUE

TunnelIsDead(prs, tun) == ~prs[tun["tunnel"]].alive

\* check_tunnels with tunneling off: self.tunnels is empty
CheckTunnelsMissing ==
    /\ pc = "check_tunnels"
    /\ "tunnel" \notin DOMAIN tunnels
    /\ pc' = "raised"
    /\ exc' = "KeyError"
    /\ tick' = [tick EXCEPT !.tunnel = "missing"]
    /\ UNCHANGED <<SSH_ASKPASS, cpVars, objVars, connAlive, connOut, procs, tunnels,
                   errlog, ctlc, sigints>>

\* check_tunnels on a live tunnel
CheckTunnelsAlive ==
    /\ pc = "check_tunnels"
    /\ "tunnel" \in DOMAIN tunnels
    /\ ~TunnelIsDead(procs, tunnels)
    /\ pc' = "readlines"
    /\ tick' = [tick EXCEPT !.tunnel = "alive"]
    /\ UNCHANGED <<SSH_ASKPASS, cpVars, objVars, connAlive, connOut, procs, tunnels,
                   exc, errlog, ctlc, sigints>>

\* how the build failed: a prompt nobody could answer, or the new process gone
RebuildFailure(e, script) ==
    IF e = "RuntimeError" THEN "credential"
    ELSE IF Exits(script) THEN "exited"
    ELSE "none"

\* check_tunnels on a dead tunnel: tunnel_connection
CheckTunnelsDead ==
    /\ pc = "check_tunnels"
    /\ "tunnel" \in DOMAIN tunnels
    /\ TunnelIsDead(procs, tunnels)
    /\ Len(procs) + 2 <= MaxProcs
    /\ \E script \in TunnelScripts :
          LET built == tunnel_connection(procs, tunnels, host, tunnel_hosts,
                                         connection_info, SSH_ASKPASS, script)
          IN  /\ procs' = built.procs
              /\ tunnels' = built.tunnels
              /\ exc' = built.exc
              /\ pc' = IF built.exc = "none" THEN "readlines" ELSE "raised"
              /\ tick' = [tick EXCEPT
                             !.tunnel = "dead",
                             !.rebuilt = TRUE,
                             !.failure = RebuildFailure(built.exc, script),
                             !.script = script]
    /\ UNCHANGED <<SSH_ASKPASS, cpVars, objVars, connAlive, connOut, errlog, ctlc, sigints>>

\* self.connection.readlines() gets one more line and waits for the next
ReadlinesLine ==
    /\ pc = "readlines"
    /\ connOut # <<>>
    /\ connOut' = Tail(connOut)
    /\ tick' = [tick EXCEPT !.read = "readlines"]
    /\ UNCHANGED <<SSH_ASKPASS, cpVars, objVars, connAlive, procs, tunnels, pc, exc,
                   errlog, ctlc, sigints>>

\* no line within the timeout: pexpect.TIMEOUT, caught; the next iteration
ReadlinesTimeout ==
    /\ pc = "readlines"
    /\ connAlive
    /\ connOut = <<>>
    /\ pc' = "loop"
    /\ tick' = [tick EXCEPT !.read = "readlines"]
    /\ UNCHANGED <<SSH_ASKPASS, cpVars, objVars, connAlive, connOut, procs, tunnels,
                   exc, errlog, ctlc, sigints>>

\* the session has exited: readlines reads to the end of file and returns
ReadlinesEOF ==
    /\ pc = "readlines"
    /\ ~connAlive
    /\ connOut = <<>>
    /\ pc' = "loop"
    /\ tick' = [tick EXCEPT !.read = "readlines"]
    /\ UNCHANGED <<SSH_ASKPASS, cpVars, objVars, connAlive, connOut, procs, tunnels,
                   exc, errlog, ctlc, sigints>>

\* the `try` of keep_alive: the only place a KeyboardInterrupt is caught
InterruptCaughtAnywhere(p) == TRUE

InterruptCaught(p) == p = "readlines"

Stopped(p) == p \in {"done", "raised"}

\* An interrupt signal reaches the process.  Inside the try it is sent on as
\* Ctrl-C and the loop goes on; anywhere else in keep_alive it leaves
\* keep_alive as a KeyboardInterrupt; after keep_alive nothing runs.
KeyboardInterrupt ==
    /\ sigints < MaxInterrupts
    /\ sigints' = sigints + 1
    /\ IF InterruptCaught(pc)
       THEN ctlc' = ctlc + 1 /\ pc' = "loop" /\ exc' = exc
       ELSE IF Stopped(pc)
       THEN UNCHANGED <<ctlc, pc, exc>>
       ELSE ctlc' = ctlc /\ pc' = "raised" /\ exc' = "KeyboardInterrupt"
    /\ UNCHANGED <<SSH_ASKPASS, cpVars, objVars, connAlive, connOut, procs, tunnels,
                   errlog, tick>>

\* ---- the environment: the remote session and the spawned processes

SessionWrites ==
    /\ connAlive
    /\ Len(connOut) < MaxOut
    /\ \E line \in {"text", "blank"} : connOut' = Append(connOut, line)
    /\ UNCHANGED <<SSH_ASKPASS, cpVars, objVars, connAlive, procs, tunnels, pc, exc,
                   errlog, ctlc, sigints, tick>>

SessionExits ==
    /\ connAlive
    /\ connAlive' = FALSE
    /\ UNCHANGED <<SSH_ASKPASS, cpVars, objVars, connOut, procs, tunnels, pc, exc,
                   errlog, ctlc, sigints, tick>>

ProcessExits ==
    /\ \E i \in 1..Len(procs) :
          /\ procs[i].alive
          /\ procs' = [procs EXCEPT ![i].alive = FALSE]
    /\ UNCHANGED <<SSH_ASKPASS, cpVars, objVars, connAlive, connOut, tunnels, pc, exc,
                   errlog, ctlc, sigints, tick>>

Next ==
    \/ Sleep
    \/ SessionDied
    \/ SessionAlive
    \/ CheckTunnelsMissing
    \/ CheckTunnelsAlive
    \/ CheckTunnelsDead
    \/ ReadlinesLine
    \/ ReadlinesTimeout
    \/ ReadlinesEOF
    \/ KeyboardInterrupt
    \/ SessionWrites
    \/ SessionExits
    \/ ProcessExits

Spec == Init /\ [][Next]_vars

\* one step of the thread that runs keep_alive
KeepAliveStep ==
    \/ Sleep
    \/ SessionDied
    \/ SessionAlive
    \/ CheckTunnelsMissing
    \/ CheckTunnelsAlive
    \/ CheckTunnelsDead
    \/ ReadlinesLine
    \/ ReadlinesTimeout
    \/ ReadlinesEOF

\* keep_alive runs in the only thread of the process: while one of its steps
\* can be taken, one is taken.  Nothing is assumed of the session, the
\* tunnel processes or the signals.
SpecFair == Spec /\ WF_vars(KeepAliveStep)

\* ------------------------------------------- SpecCP: check_password alone

\* no RemoteIKernel is under keep_alive
KAIdle ==
    /\ host = <<>>
    /\ tunnel_hosts = <<>>
    /\ connection_info = Ports
    /\ caller_info = Ports
    /\ NoConnectionFile
    /\ connAlive = FALSE
    /\ connOut = <<>>
    /\ procs = <<>>
    /\ tunnels = EmptyTunnels
    /\ pc = "off"
    /\ exc = "none"
    /\ errlog = <<>>
    /\ ctlc = 0
    /\ sigints = 0
    /\ tick = NewTick

NoIteration == [text |-> <<>>, op |-> "none", kind |-> "none", sentBefore |-> 0]

InitCP ==
    /\ SSH_ASKPASS \in {"unset", "set"}
    /\ cpPrompts \in SeqsUpTo(Prompts, MaxPrompts)
    /\ cpStream = StreamOf(cpPrompts)
    /\ cpReads = <<>>
    /\ cpSent = <<>>
    /\ cpPc = "read"
    /\ cpExc = "none"
    /\ cpLast = NoIteration
    /\ KAIdle
    /\ LaunchIdle

\* the effect of one loop iteration on the state of the run
CPApply(read) ==
    LET it == CheckPasswordIteration(read, SSH_ASKPASS)
    IN  /\ cpSent' = IF it.op = "sendline" THEN Append(cpSent, it.line) ELSE cpSent
        /\ cpPc' = IF it.op = "sendline" THEN "read"
                   ELSE IF it.op = "return" THEN "returned" ELSE "raised"
        /\ cpExc' = it.exc
        /\ cpLast' = [text |-> read.text, op |-> it.op, kind |-> it.kind,
                      sentBefore |-> Len(cpSent)]

\* read_nonblocking returns the first k characters that have arrived
CPReadText ==
    /\ cpPc = "read"
    /\ \E k \in 1..Len(cpStream) :
          /\ cpReads' = Append(cpReads, SubSeq(cpStream, 1, k))
          /\ cpStream' = SubSeq(cpStream, k + 1, Len(cpStream))
          /\ CPApply(ReadText(SubSeq(cpStream, 1, k)))
    /\ UNCHANGED <<SSH_ASKPASS, cpPrompts, objVars, kaVars>>

\* nothing arrives within the timeout
CPReadTimeout ==
    /\ cpPc = "read"
    /\ cpStream = <<>>
    /\ CPApply(ReadTimeout)
    /\ UNCHANGED <<SSH_ASKPASS, cpPrompts, cpStream, cpReads, objVars, kaVars>>

\* the child has exited and its output is exhausted
CPReadEOF ==
    /\ cpPc = "read"
    /\ cpStream = <<>>
    /\ CPApply(ReadEOF)
    /\ UNCHANGED <<SSH_ASKPASS, cpPrompts, cpStream, cpReads, objVars, kaVars>>

NextCP == CPReadText \/ CPReadTimeout \/ CPReadEOF

SpecCP == InitCP /\ [][NextCP]_vars

\* ------------------------ SpecLaunch: __init__ called by start_remote_kernel

\* what an expect() on the session ends with
ExpectOutcomes == {"match", "TIMEOUT", "EOF"}

\* pexpect.spawn raises ExceptionPexpect for a command it cannot start;
\* sendline into the running connection does not
SpawnOk(conn) == IF conn.n = 0 THEN BOOLEAN ELSE {TRUE}

\* the stage "session" is reached by the call of _spawn that starts the process
Started(conn) == IF conn.n = 0 THEN <<"session">> ELSE <<>>

\* a dispatch that falls back to the local interface
DispatchOrLocal(i) == IF i \in Interfaces THEN i ELSE "local"

\* the branch of `if self.interface == 'local': ... else: raise ValueError`
Dispatch(i) == IF i \in Interfaces THEN i ELSE "ValueError"

\* launch_local leaving the requested tunnel setting alone
TunnelRequested(tun) == tun

\* launch_local: `self.tunnel = False`
TunnelAfterLocal(tun) == FALSE

\* `if self.connection is not None:` after the dispatch, with start_kernel skipped
AfterLaunchTunnelFirst(conn) == "tunnel_connection"

\* `if self.connection is not None: self.start_kernel()`
AfterLaunch(conn) == IF conn.n # 0 THEN "start_kernel" ELSE "constructed"

\* `if self.tunnel: self.tunnel_connection()`
AfterStartKernel(tun) == IF tun THEN "tunnel_connection" ELSE "constructed"

\* the session after an expect() or check_password that ended with `end`
Ended(conn, end) == [conn EXCEPT !.alive = end # "EOF"]

\* how the reads of a check_password script end
ScriptEnd(script) == script[Len(script)].r

\* how the session answers the reads of check_password: it falls silent, it
\* asks for a password and falls silent, or it exits
SessionScripts ==
    {<<ReadTimeout>>, <<ReadText(PasswordPromptX), ReadTimeout>>, <<ReadEOF>>}

\* what a run of check_password on `reads` adds to the dialogue: every prompt
\* it read, each followed by the secret when one was sent
RECURSIVE Heard(_, _)
Heard(reads, env) ==
    IF reads = <<>> THEN <<>>
    ELSE LET it == CheckPasswordIteration(Head(reads), env)
         IN  IF it.kind = "none" THEN <<>>
             ELSE IF it.op = "sendline"
             THEN <<"prompt", "secret">> \o Heard(Tail(reads), env)
             ELSE <<"prompt">>

\* how an expect() for the notice of the scheduler ends: with the notice, with
\* a timeout or the end of the session, or with a timeout after the session
\* asked for a password (expect() answers nothing, so the session waits)
ReadyWaits == {[end |-> e, heard |-> <<>>] : e \in ExpectOutcomes}
              \cup {[end |-> "TIMEOUT", heard |-> <<"prompt">>]}

\* the shells the session has open on top of one another: the command the
\* process was started with, and one for every command _spawn sent as a line
Shells(conn) ==
    1 + Cardinality({i \in 1..Len(conn.sent) : "prog" \in DOMAIN conn.sent[i]})

\* the keep_alive loop has not started
KANotStarted ==
    /\ connAlive = FALSE
    /\ connOut = <<>>
    /\ pc = "off"
    /\ exc = "none"
    /\ errlog = <<>>
    /\ ctlc = 0
    /\ sigints = 0
    /\ tick = NewTick

\* the optional --launch-args, --precmd and -f: none given, a connection file
\* that exists, or all given with a connection file that does not exist yet
Extras == {[launch_args |-> "", precmd |-> "", connection_file |-> "None", exists |-> FALSE],
           [launch_args |-> "", precmd |-> "", connection_file |-> "kernel-1.json",
            exists |-> TRUE],
           [launch_args |-> "-q short", precmd |-> "module load python",
            connection_file |-> "kernel-1.json", exists |-> FALSE]}

\* RemoteIKernel.__init__ at `if self.tunnel_hosts is not None:`, called with
\* any arguments (start_remote_kernel leaves tunnel at its default, True);
\* a host is given with the ssh interface only
InitLaunch ==
    /\ SSH_ASKPASS \in {"unset", "set"}
    /\ CPIdle
    /\ KANotStarted
    /\ interface \in Interfaces \cup {"lsf"}
    /\ cpus \in {1, 2}
    /\ mem \in {"None", "4G"}
    /\ time \in {"None", "1:00:00"}
    /\ \E x \in Extras :
          LET given == load_connection_info(x.connection_file, x.exists, StoredInfo, Ports)
          IN  /\ launch_args = x.launch_args
              /\ precmd = x.precmd
              /\ connection_info = given.self
              /\ caller_info = given.caller
              /\ connection_file = x.connection_file
              /\ _delcf = given.delcf
              /\ cf_on_disk = given.on_disk
    /\ kernel_cmd \in {[text |-> "ipython kernel", hcf |-> FALSE],
                       [text |-> "ipython kernel -f {host_connection_file}", hcf |-> TRUE]}
    /\ tunnel \in BOOLEAN
    /\ host \in IF interface = "ssh" THEN {NoHost, <<"node1">>} ELSE {NoHost}
    /\ tunnel_hosts \in {<<>>, << <<"gw", "22">> >>}
    /\ connection = NoConnection
    /\ sshfs_proc = "None"
    /\ procs = <<>>
    /\ tunnels = EmptyTunnels
    /\ events = <<>>
    /\ lpc = "tunnel_hosts"
    /\ lexc = "none"
    /\ dialogue = <<>>
    /\ service = "none"

\* what no step of the launch changes
LaunchFixed ==
    UNCHANGED <<SSH_ASKPASS, cpVars, tunnel_hosts, connection_info, connAlive, connOut,
                pc, exc, errlog, ctlc, sigints, tick, interface, cpus, mem, time,
                launch_args, kernel_cmd, precmd, caller_info, connection_file, _delcf>>

\* raise e
Abort(e) == lpc' = "failed" /\ lexc' = e

\* `if self.tunnel_hosts is not None:` with no tunnel hosts
NoTunnelHosts ==
    /\ lpc = "tunnel_hosts"
    /\ tunnel_hosts = <<>>
    /\ lpc' = "interface"
    /\ UNCHANGED <<host, tunnel, connection, sshfs_proc, procs, tunnels, events, lexc>>
    /\ UNCHANGED <<cf_on_disk, dialogue, service>>
    /\ LaunchFixed

\* RemoteIKernel.launch_tunnel_hosts
launch_tunnel_hosts ==
    /\ lpc = "tunnel_hosts"
    /\ tunnel_hosts # <<>>
    /\ \E ok \in SpawnOk(connection), script \in SessionScripts :
          IF ~ok
          THEN Abort("ExceptionPexpect") /\ UNCHANGED <<connection, events, dialogue>>
          ELSE LET auth == check_password(script, SSH_ASKPASS)
                   conn == _spawn(connection, tunnel_hosts_cmd(tunnel_hosts))
               IN  /\ connection' = Ended(sendlines(conn, auth.sent), ScriptEnd(script))
                   /\ events' = events \o Started(connection)
                   /\ dialogue' = dialogue \o Heard(script, SSH_ASKPASS)
                   /\ IF auth.exc = "none"
                      THEN lpc' = "interface" /\ lexc' = lexc
                      ELSE Abort(auth.exc)
    /\ UNCHANGED <<host, tunnel, sshfs_proc, procs, tunnels>>
    /\ UNCHANGED <<cf_on_disk, service>>
    /\ LaunchFixed

\* RemoteIKernel.launch_local
launch_local ==
    /\ lpc = "interface"
    /\ Dispatch(interface) = "local"
    /\ \E ok \in SpawnOk(connection) :
          IF ~ok
          THEN Abort("ExceptionPexpect") /\ UNCHANGED <<connection, events, tunnel>>
          ELSE /\ connection' = _spawn(connection, local_cmd(cpus, mem, time, launch_args))
               /\ tunnel' = TunnelAfterLocal(tunnel)
               /\ events' = events \o Started(connection) \o <<"launched">>
               /\ lpc' = AfterLaunch(connection')
               /\ lexc' = lexc
    /\ UNCHANGED <<host, sshfs_proc, procs, tunnels>>
    /\ UNCHANGED <<cf_on_disk, dialogue, service>>
    /\ LaunchFixed

\* RemoteIKernel.launch_ssh: subprocess.Popen starts the ncat listener, then
\* the login command goes through _spawn and check_password
launch_ssh ==
    /\ lpc = "interface"
    /\ Dispatch(interface) = "ssh"
    /\ sshfs_proc' = "running"
    /\ \E ok \in SpawnOk(connection), script \in SessionScripts :
          IF ~ok
          THEN Abort("ExceptionPexpect") /\ UNCHANGED <<connection, events, dialogue>>
          ELSE LET auth == check_password(script, SSH_ASKPASS)
                   ssh == Ended(sendlines(_spawn(connection,
                                   login_cmd(cpus, mem, time, launch_args, host)),
                                          auth.sent), ScriptEnd(script))
               IN  /\ dialogue' = dialogue \o Heard(script, SSH_ASKPASS)
                   /\ IF auth.exc = "none"
                      THEN /\ connection' = sendlines(ssh, <<Line("mkdir -p"),
                                                Line("sshfs"), Line("cd")>>)
                           /\ events' = events \o Started(connection) \o <<"launched">>
                           /\ lpc' = AfterLaunch(connection')
                           /\ lexc' = lexc
                      ELSE /\ connection' = ssh
                           /\ events' = events \o Started(connection)
                           /\ Abort(auth.exc)
    /\ UNCHANGED <<host, tunnel, procs, tunnels>>
    /\ UNCHANGED <<cf_on_disk, service>>
    /\ LaunchFixed

\* RemoteIKernel.launch_pbs, `out` the buffer the second expect() searches
\* when it matches or gives up
launch_pbs ==
    /\ lpc = "interface"
    /\ Dispatch(interface) = "pbs"
    /\ \E ok \in SpawnOk(connection), wait \in ReadyWaits, out \in PbsOutputs :
          IF ~ok
          THEN Abort("ExceptionPexpect") /\ UNCHANGED <<connection, events, host, dialogue>>
          ELSE LET qsub_i == _spawn(connection, pbs_cmd(cpus, mem, time, launch_args))
                   asked == sendlines(qsub_i, <<Line("echo Running on")>>)
                   match == pbs_pattern(out)
               IN  IF wait.end # "match"
                   THEN /\ connection' = Ended(qsub_i, wait.end)
                        /\ events' = events \o Started(connection)
                        /\ dialogue' = dialogue \o wait.heard
                        /\ Abort(wait.end)
                        /\ host' = host
                   ELSE IF ~match.found
                   THEN \E end \in {"TIMEOUT", "EOF"} :
                           /\ connection' = Ended(asked, end)
                           /\ events' = events \o Started(connection)
                           /\ dialogue' = dialogue \o <<"ready", "query">>
                           /\ Abort(end)
                           /\ host' = host
                   ELSE /\ connection' = asked
                        /\ events' = events \o Started(connection) \o <<"launched">>
                        /\ dialogue' = dialogue \o <<"ready", "query">> \o Echoed(out)
                                                 \o <<"reply">>
                        /\ host' = <<match.group>>
                        /\ lpc' = AfterLaunch(connection')
                        /\ lexc' = lexc
    /\ UNCHANGED <<tunnel, sshfs_proc, procs, tunnels>>
    /\ UNCHANGED <<cf_on_disk, service>>
    /\ LaunchFixed

\* RemoteIKernel.launch_sge, `out` the buffer expect() searches when it
\* matches or gives up
launch_sge ==
    /\ lpc = "interface"
    /\ Dispatch(interface) = "sge"
    /\ \E ok \in SpawnOk(connection), out \in SgeOutputs :
          IF ~ok
          THEN Abort("ExceptionPexpect") /\ UNCHANGED <<connection, events, host>>
          ELSE LET qlogin == _spawn(connection, sge_cmd(cpus, mem, time, launch_args))
                   match == sge_pattern(out)
               IN  IF match.found
                   THEN /\ connection' = qlogin
                        /\ events' = events \o Started(connection) \o <<"launched">>
                        /\ host' = <<match.group>>
                        /\ lpc' = AfterLaunch(connection')
                        /\ lexc' = lexc
                   ELSE \E end \in {"TIMEOUT", "EOF"} :
                           /\ connection' = Ended(qlogin, end)
                           /\ events' = events \o Started(connection)
                           /\ Abort(end)
                           /\ host' = host
    /\ UNCHANGED <<tunnel, sshfs_proc, procs, tunnels>>
    /\ UNCHANGED <<cf_on_disk, dialogue, service>>
    /\ LaunchFixed

\* RemoteIKernel.launch_slurm
launch_slurm ==
    /\ lpc = "interface"
    /\ Dispatch(interface) = "slurm"
    /\ \E ok \in SpawnOk(connection), wait \in ReadyWaits :
          IF ~ok
          THEN Abort("ExceptionPexpect") /\ UNCHANGED <<connection, events, host, dialogue>>
          ELSE LET srun == _spawn(connection, srun_cmd(cpus, mem, time, launch_args))
               IN  IF wait.end # "match"
                   THEN /\ connection' = Ended(srun, wait.end)
                        /\ events' = events \o Started(connection)
                        /\ dialogue' = dialogue \o wait.heard
                        /\ Abort(wait.end)
                        /\ host' = host
                   ELSE /\ connection' = srun
                        /\ dialogue' = Append(dialogue, "ready")
                        /\ events' = events \o Started(connection) \o <<"launched">>
                        /\ host' = SchedulerNode
                        /\ lpc' = AfterLaunch(connection')
                        /\ lexc' = lexc
    /\ UNCHANGED <<tunnel, sshfs_proc, procs, tunnels>>
    /\ UNCHANGED <<cf_on_disk, service>>
    /\ LaunchFixed

\* `else: raise ValueError("Unknown interface {}")`
UnknownInterface ==
    /\ lpc = "interface"
    /\ Dispatch(interface) = "ValueError"
    /\ Abort("ValueError")
    /\ UNCHANGED <<host, tunnel, connection, sshfs_proc, procs, tunnels, events>>
    /\ UNCHANGED <<cf_on_disk, dialogue, service>>
    /\ LaunchFixed

\* RemoteIKernel.start_kernel
start_kernel ==
    /\ lpc = "start_kernel"
    /\ \E echoed \in ExpectOutcomes :
          /\ connection' = Ended(sendlines(connection,
                                    start_kernel_lines(kernel_cmd, precmd)), echoed)
          /\ IF echoed = "match"
             THEN lpc' = AfterStartKernel(tunnel) /\ lexc' = lexc
             ELSE Abort(echoed)
    /\ events' = Append(events, "service")
    /\ service' = "running"
    /\ UNCHANGED <<host, tunnel, sshfs_proc, procs, tunnels>>
    /\ UNCHANGED <<cf_on_disk, dialogue>>
    /\ LaunchFixed

\* RemoteIKernel.tunnel_connection called by __init__; with self.host None
\* the tunnel_cmd property raises TypeError after the bare connection
TunnelConnection ==
    /\ lpc = "tunnel_connection"
    /\ IF host = NoHost
       THEN /\ procs' = Append(procs, bare_connection(host, tunnel_hosts))
            /\ Abort("TypeError")
            /\ UNCHANGED <<tunnels, events>>
       ELSE \E script \in TunnelScripts :
               LET built == tunnel_connection(procs, tunnels, host, tunnel_hosts,
                                              connection_info, SSH_ASKPASS, script)
               IN  /\ procs' = built.procs
                   /\ tunnels' = built.tunnels
                   /\ events' = Append(events, "tunnel")
                   /\ IF built.exc = "none"
                      THEN lpc' = "constructed" /\ lexc' = lexc
                      ELSE Abort(built.exc)
    /\ UNCHANGED <<host, tunnel, connection, sshfs_proc>>
    /\ UNCHANGED <<cf_on_disk, dialogue, service>>
    /\ LaunchFixed

\* start_remote_kernel: `kernel.keep_alive()` once the constructor returned
KeepAliveStarts ==
    /\ lpc = "constructed"
    /\ lpc' = "keep_alive"
    /\ events' = Append(events, "supervise")
    /\ UNCHANGED <<host, tunnel, connection, sshfs_proc, procs, tunnels, lexc>>
    /\ UNCHANGED <<cf_on_disk, dialogue, service>>
    /\ LaunchFixed

\* the remote kernel ends: the shell it ran in goes on with the lines queued
\* behind it, and the `exit` among them leaves that shell.  The process of
\* the session ends with its last shell.
ServiceExits ==
    /\ service = "running"
    /\ service' = "exited"
    /\ connection' = [connection EXCEPT !.alive = @ /\ Shells(connection) > 1]
    /\ UNCHANGED <<host, tunnel, sshfs_proc, procs, tunnels, events, lpc, lexc,
                   cf_on_disk, dialogue>>
    /\ LaunchFixed

\* keep_alive: `if not self.connection.isalive(): ... break`, after which
\* start_remote_kernel returns
KeepAliveBreaks ==
    /\ lpc = "keep_alive"
    /\ ~connection.alive
    /\ lpc' = "returned"
    /\ UNCHANGED <<host, tunnel, connection, sshfs_proc, procs, tunnels, events, lexc,
                   cf_on_disk, dialogue, service>>
    /\ LaunchFixed

\* keep_alive: check_tunnels with no entry in self.tunnels
KeepAliveRaises ==
    /\ lpc = "keep_alive"
    /\ connection.alive
    /\ "tunnel" \notin DOMAIN tunnels
    /\ Abort("KeyError")
    /\ UNCHANGED <<host, tunnel, connection, sshfs_proc, procs, tunnels, events,
                   cf_on_disk, dialogue, service>>
    /\ LaunchFixed

\* keep_alive: one iteration of the loop with the session alive and a tunnel
\* stored, from the check of the session to the read and back
KeepAliveTick ==
    /\ lpc = "keep_alive"
    /\ connection.alive
    /\ "tunnel" \in DOMAIN tunnels
    /\ pc' = IF pc = "readlines" THEN "loop" ELSE "readlines"
    /\ UNCHANGED <<SSH_ASKPASS, cpVars, objVars, connAlive, connOut, procs, tunnels, exc,
                   errlog, ctlc, sigints, tick>>

\* the first definition of __del__ in the class body
__del__connection_file(obj) ==
    [obj EXCEPT !.cf_on_disk = IF obj.delcf THEN FALSE ELSE @]

\* the second definition of __del__ in the class body, the one the class
\* keeps: a later definition of the same name replaces the earlier
__del__(obj) ==
    [obj EXCEPT !.sshfs_proc = IF @ # "None" THEN "killed" ELSE @]

\* the object is collected once __init__ raised or start_remote_kernel is
\* done: __del__ runs, and the spawn object self.connection held goes with
\* the object, which ends the process of the session
Del ==
    /\ lpc \in {"failed", "returned"}
    /\ lpc' = "deleted"
    /\ LET obj == __del__([delcf |-> _delcf, cf_on_disk |-> cf_on_disk,
                           sshfs_proc |-> sshfs_proc])
       IN  sshfs_proc' = obj.sshfs_proc /\ cf_on_disk' = obj.cf_on_disk
    /\ connection' = [connection EXCEPT !.alive = FALSE]
    /\ UNCHANGED <<host, tunnel, procs, tunnels, events, lexc, dialogue, service>>
    /\ LaunchFixed

NextLaunch ==
    \/ NoTunnelHosts
    \/ launch_tunnel_hosts
    \/ launch_local
    \/ launch_ssh
    \/ launch_pbs
    \/ launch_sge
    \/ launch_slurm
    \/ UnknownInterface
    \/ start_kernel
    \/ TunnelConnection
    \/ KeepAliveStarts
    \/ ServiceExits
    \/ KeepAliveBreaks
    \/ KeepAliveRaises
    \/ KeepAliveTick
    \/ Del

SpecLaunch == InitLaunch /\ [][NextLaunch]_vars

\* the steps of the program itself: __init__, keep_alive and __del__
LaunchStep ==
    \/ NoTunnelHosts \/ launch_tunnel_hosts \/ launch_local \/ launch_ssh \/ launch_pbs
    \/ launch_sge \/ launch_slurm \/ UnknownInterface \/ start_kernel \/ TunnelConnection
    \/ KeepAliveStarts \/ KeepAliveBreaks \/ KeepAliveRaises \/ KeepAliveTick \/ Del

\* start_remote_kernel runs in the only thread of the process: while one of
\* its steps can be taken, one is taken.  Nothing is assumed of the remote
\* kernel.
SpecLaunchFair == SpecLaunch /\ WF_vars(LaunchStep)

\* ======================================================== the claims

\* the supervisor's states of the spec
RemoteExited == pc = "done"

StoredTunnel == procs[tunnels["tunnel"]]

\* the tunnel __init__ built: the second process spawned, after its bare connection
OriginalTunnel == procs[2]

\* this step is the call of check_tunnels of the current tick
CheckTunnelsStep == tick.tunnel = "unchecked" /\ tick'.tunnel # "unchecked"

\* ---- C1: on the tick that finds the session not alive the supervisor
\* reports the remaining output and leaves the loop for good: in that tick and
\* in every later state there was no tunnel check, no rebuild and no read of
\* the session but the one that reported the remaining output.
C1_RemoteExitedIsTerminal ==
    tick.session = "dead" =>
        /\ RemoteExited
        /\ tick.tunnel = "unchecked"
        /\ ~tick.rebuilt
        /\ tick.read = "drain"
        /\ connOut = <<>>
        /\ Len(errlog) = Cardinality({i \in 1..Len(tick.drained) : tick.drained[i] = "text"})
        /\ \A i \in 1..Len(errlog) : errlog[i] = "text"

\* the session exited with a line unread and with the tunnel dead
C1_Witness ==
    /\ RemoteExited
    /\ tick.session = "dead"
    /\ errlog # <<>>
    /\ "tunnel" \in DOMAIN tunnels
    /\ ~StoredTunnel.alive

\* ---- C2 (as claimed): whenever a tick finds the tunnel dead with the
\* session alive, the supervisor has spawned a new tunnel and is back in the
\* loop (Running).
C2_TunnelRebuiltWithinOneTick ==
    tick.tunnel = "dead" =>
        /\ tick.rebuilt
        /\ pc \in {"readlines", "loop"}
        /\ StoredTunnel.kind = "tunnel"

\* ---- C3: check_tunnels on a live tunnel spawns no process, sends nothing
\* and leaves the stored tunnel, the host and the connection info unchanged,
\* every time it is called.
C3_CheckTunnelsIdempotent ==
    [][(/\ CheckTunnelsStep
        /\ "tunnel" \in DOMAIN tunnels
        /\ StoredTunnel.alive)
       => /\ UNCHANGED <<procs, tunnels, host, tunnel_hosts, connection_info, ctlc>>
          /\ tick'.tunnel = "alive"
          /\ pc' = "readlines"]_vars

\* check_tunnels found a rebuilt tunnel alive
C3_Witness ==
    /\ tick.tunnel = "alive"
    /\ pc = "readlines"
    /\ tunnels["tunnel"] > 2

\* every credential prompt of the build in this step resolved
CredentialsResolved == exc' # "RuntimeError"

\* check_tunnels returned with a new, live tunnel for the original target
ReturnedWithNewLiveTunnel ==
    /\ pc' = "readlines"
    /\ tunnels'["tunnel"] > Len(procs)
    /\ procs'[tunnels'["tunnel"]].kind = "tunnel"
    /\ procs'[tunnels'["tunnel"]].alive
    /\ procs'[tunnels'["tunnel"]].cmd = OriginalTunnel.cmd
    /\ procs'[tunnels'["tunnel"]].cmd.host = host[1]
    /\ procs'[tunnels'["tunnel"]].cmd.jumps = tunnel_hosts
    /\ Len(procs'[tunnels'["tunnel"]].cmd.forwards) = 5

C5_InterruptAlwaysForwarded ==
    [][(sigints' = sigints + 1 /\ connAlive /\ ~Stopped(pc))
       => (ctlc' = ctlc + 1 /\ ~Stopped(pc'))]_vars

\* ---- C6: once the supervisor has stopped (the remote exited, or keep_alive
\* was left), no Ctrl-C is sent to the session any more.
C6_NoInterruptAfterStop ==
    [][Stopped(pc) => (ctlc' = ctlc /\ Stopped(pc'))]_vars

\* an interrupt arrived after the remote had exited and was not sent on
C6_Witness ==
    /\ RemoteExited
    /\ exc = "none"
    /\ sigints > 0
    /\ ctlc = 0

\* ---- C7 (as claimed): a tunnel rebuild that fails because a credential
\* prompt cannot be answered does not stop the supervisor: it stays in the
\* loop.
C7_RebuildFailureNotFatal ==
    tick.failure = "credential" => pc \in {"readlines", "loop"}

\* ---- the prompt scanner, under SpecCP

\* 'Enter passphrase .*:' matches somewhere in t
MatchesPassphrase(t) ==
    \E i, j \in 1..Len(t) :
        i < j /\ t[i] = "E" /\ EndsWithColon(t[j]) /\ SameLine(t, i, j)

\* '.*@.* password:' matches somewhere in t
MatchesPassword(t) ==
    \E i, j \in 1..Len(t) :
        i < j /\ t[i] = "a" /\ t[j] = "W" /\ SameLine(t, i, j)

\* the secrets of the prompts the session emitted, in prompt order
SecretsInOrder == [i \in 1..Len(cpPrompts) |-> Secret(cpPrompts[i])]

\* a chunk without the line break that ended the line before it
Strip(chunk) == IF chunk # <<>> /\ Head(chunk) = "n" THEN Tail(chunk) ELSE chunk

\* every read returned exactly one whole prompt
OnePromptPerRead ==
    /\ Len(cpReads) = Len(cpPrompts)
    /\ \A i \in 1..Len(cpReads) : Strip(cpReads[i]) = cpPrompts[i]

\* ---- C8 (as claimed): however the N prompts are split or grouped across
\* the reads, check_password sends exactly N lines, the i-th the secret
\* for the i-th prompt.
C8_EveryPromptAnswered ==
    (cpPc = "returned" /\ SSH_ASKPASS = "set") => cpSent = SecretsInOrder

\* ---- C8 (amended): when every read returns exactly one whole prompt,
\* check_password sends exactly N lines, the i-th the secret for the i-th
\* prompt.
C8_EveryPromptAnsweredOnePerRead ==
    (cpPc = "returned" /\ SSH_ASKPASS = "set" /\ OnePromptPerRead)
        => cpSent = SecretsInOrder

\* a passphrase and then a password were asked for and answered
C8_Witness ==
    /\ cpPc = "returned"
    /\ SSH_ASKPASS = "set"
    /\ OnePromptPerRead
    /\ cpPrompts = <<PassphrasePrompt, PasswordPromptX>>
    /\ Len(cpSent) = 2

SentByLastIteration == Len(cpSent) - cpLast.sentBefore

\* ---- C9: a chunk of text gets exactly one classification: passphrase if
\* the passphrase pattern matches, otherwise password if that one matches;
\* at most one secret is sent for it, and text matching neither ends the
\* scan with nothing sent.
C9_OneClassification ==
    cpLast.op # "none" =>
        /\ SentByLastIteration \in {0, 1}
        /\ MatchesPassphrase(cpLast.text) => cpLast.kind = "passphrase"
        /\ (~MatchesPassphrase(cpLast.text) /\ MatchesPassword(cpLast.text))
              => cpLast.kind = "password"
        /\ (~MatchesPassphrase(cpLast.text) /\ ~MatchesPassword(cpLast.text))
              => (cpLast.kind = "none" /\ cpPc # "read" /\ SentByLastIteration = 0)
        /\ (cpLast.kind = "passphrase" /\ SentByLastIteration = 1)
              => Head(cpSent[Len(cpSent)].secret_for) = "E"
        /\ (cpLast.kind = "password" /\ SentByLastIteration = 1)
              => cpSent[Len(cpSent)].secret_for[Len(cpSent[Len(cpSent)].secret_for)] = "W"

\* a chunk matching both patterns was answered once, as a passphrase
C9_Witness ==
    /\ MatchesPassphrase(cpLast.text)
    /\ MatchesPassword(cpLast.text)
    /\ cpLast.kind = "passphrase"
    /\ SentByLastIteration = 1

\* ---- C10: a recognized prompt with no askpass program configured makes
\* the credential resolution fail, and nothing is sent for that prompt.
C10_NoAskpassNothingSent ==
    (/\ SSH_ASKPASS = "unset"
     /\ MatchesPassphrase(cpLast.text) \/ MatchesPassword(cpLast.text))
        => /\ cpPc = "raised"
           /\ cpExc = "RuntimeError"
           /\ cpSent = <<>>

\* a password prompt was read with SSH_ASKPASS unset
C10_Witness ==
    /\ SSH_ASKPASS = "unset"
    /\ cpLast.kind = "password"
    /\ MatchesPassword(cpLast.text)
    /\ cpPc = "raised"

\* ------------------------------------------------- the launch (SpecLaunch)

\* the launch has reached this stage
Reached(stage) == \E i \in 1..Len(events) : events[i] = stage

\* every command of the chain, in order: the one the session process was
\* spawned with, then the lines sent into it
Chain == <<connection.cmd>> \o connection.sent

\* ---- C11: with the local interface, whatever tunnel setting was requested,
\* once launch_local has run the tunnel flag is false, tunnel_connection is
\* never reached, and no tunnel process is spawned or stored.
C11_LocalNeverTunnels ==
    interface = "local" =>
        /\ Reached("launched") => ~tunnel
        /\ lpc # "tunnel_connection"
        /\ ~Reached("tunnel")
        /\ procs = <<>>
        /\ tunnels = EmptyTunnels

\* the local launch ran to the start of supervision
C11_Witness ==
    interface = "local" /\ Reached("launched") /\ Reached("service") /\ lpc = "keep_alive"

\* the stages of a launch in the order the specification gives them
Rank(stage) ==
    CASE stage = "session"   -> 1
      [] stage = "launched"  -> 2
      [] stage = "service"   -> 3
      [] stage = "tunnel"    -> 4
      [] stage = "supervise" -> 5

\* the service command is among the lines sent into the session process
ServiceSent == \E i \in 1..Len(connection.sent) :
                  connection.sent[i] = [line |-> "kernel_init", text |-> kernel_cmd.text]

\* ---- C12: in every execution the stages come in one order: the session is
\* spawned, the launch_* method drives it until the host is known, the
\* service command is sent into that same session, the tunnel to that host
\* is built if and only if tunnelling is enabled, and supervision starts
\* last; no tunnel is built before the service command has been sent.
C12_LaunchOrder ==
    /\ \A i, j \in 1..Len(events) : i < j => Rank(events[i]) < Rank(events[j])
    /\ Reached("launched") => Reached("session")
    /\ Reached("service") => Reached("launched") /\ connection.n = 1 /\ ServiceSent
    /\ Reached("tunnel") =>
          /\ Reached("service") /\ tunnel
          /\ procs[Len(procs)].kind = "tunnel" /\ procs[Len(procs)].cmd.host = host[1]
    /\ Reached("supervise") => Reached("service") /\ (tunnel <=> Reached("tunnel"))

\* a launch with tunnelling went through every stage
C12_Witness ==
    lpc = "keep_alive" /\ tunnel /\ Reached("tunnel") /\ "tunnel" \in DOMAIN tunnels
    /\ events = <<"session", "launched", "service", "tunnel", "supervise">>

\* the lines of start_kernel are the last lines sent into the session
EndsWithStartKernel ==
    LET lines == start_kernel_lines(kernel_cmd, precmd)
        n == Len(connection.sent)
    IN  n >= Len(lines) /\ SubSeq(connection.sent, n - Len(lines) + 1, n) = lines

\* ---- C13: _spawn starts at most one session process per object; with
\* jump hosts that process is the ssh chain and the launch command of the
\* interface is a line sent into it; the lines of start_kernel (cd, the
\* connection file set-up, the pre-command, the service command, exit) are
\* sent into the same process.
C13_OneSessionProcess ==
    /\ connection.n <= 1
    /\ (connection.n = 1 /\ tunnel_hosts # <<>>) =>
          connection.cmd = tunnel_hosts_cmd(tunnel_hosts)
    /\ Reached("launched") =>
          \E i \in 1..Len(Chain) :
             /\ Chain[i] = launch_cmd(interface, cpus, mem, time, launch_args, host)
             /\ i = 1 <=> tunnel_hosts = <<>>
    /\ Reached("service") => EndsWithStartKernel

\* a scheduler launch behind a jump host reached supervision
C13_Witness ==
    /\ lpc = "keep_alive" /\ tunnel_hosts # <<>> /\ interface = "pbs"
    /\ kernel_cmd.hcf /\ precmd # ""
    /\ connection.n = 1 /\ Len(connection.sent) >= 9

\* __init__ was left by an exception
LaunchFailed == lpc \in {"failed", "deleted"}

\* the exceptions that report a bad configuration
ConfigurationErrors == {"KeyError", "ValueError"}

\* ---- C14: the ssh launch of an object with no host is rejected with a
\* configuration error, and that step spawns no process: no session, no
\* helper listener, no tunnel.
C14_NoHostRejectedBeforeAnySpawn ==
    [][(lpc = "interface" /\ interface = "ssh" /\ host = NoHost) =>
          /\ lpc' = "failed"
          /\ lexc' \in ConfigurationErrors
          /\ UNCHANGED <<connection, sshfs_proc, procs, tunnels>>]_vars

\* ---- C15: with an interface name outside local, ssh, pbs, sge, slurm the
\* dispatch of __init__ raises the unknown-interface error, and in no state
\* of such a launch has the service command been sent, a tunnel been built
\* or supervision started.
C15_UnknownInterfaceFails ==
    /\ [](interface \notin Interfaces =>
             /\ lpc \notin {"start_kernel", "tunnel_connection", "constructed", "keep_alive"}
             /\ ~Reached("launched") /\ ~Reached("service")
             /\ ~Reached("tunnel") /\ ~Reached("supervise")
             /\ ~ServiceSent
             /\ procs = <<>> /\ tunnels = EmptyTunnels)
    /\ [][(lpc = "interface" /\ interface \notin Interfaces) =>
             (lpc' = "failed" /\ lexc' = "ValueError")]_vars

\* the dispatch rejected the interface after the jump-host session was started
C15_Witness ==
    /\ interface \notin Interfaces /\ LaunchFailed /\ lexc = "ValueError"
    /\ connection.n = 1 /\ connection.alive

\* the ready pattern of the scheduler did not appear in time
SchedulingTimeout ==
    interface \in Schedulers /\ LaunchFailed /\ lexc = "TIMEOUT" /\ ~Reached("launched")

\* ---- C16: when the scheduler's ready pattern does not appear within the
\* wait window the launch fails with the timeout, the service command is
\* never sent, and the session process spawned for the request is no longer
\* alive once the failure is reported.
C16_TimeoutTearsDownSession ==
    SchedulingTimeout => (~ServiceSent /\ ~connection.alive)

\* the launch failed before the launch_* method had returned, because a
\* process could not be spawned or the interface is unknown
AbortedInConstruction ==
    LaunchFailed /\ ~Reached("launched") /\ lexc \in {"ExceptionPexpect", "ValueError"}

\* ---- C17: when the launch aborts during the construction of the chain,
\* the jump-host session process and the local helper listener are
\* terminated once the failure is reported.
C17_AbortReleasesResources ==
    AbortedInConstruction => (~connection.alive /\ sshfs_proc # "running")

\* the launch command as it went into the chain: the first command of the
\* chain that carries resource options
LaunchCommandSent ==
    Chain[Min({i \in 1..Len(Chain) : "opts" \in DOMAIN Chain[i]})]

\* the command line carries the flag of this resource parameter
HasFlag(cmd, param) == \E i \in 1..Len(cmd.opts) : cmd.opts[i].param = param

\* the resource parameter differs from its default
NonDefault(param) ==
    CASE param = "cpus" -> cpus > 1
      [] param = "mem"  -> mem # "None"
      [] param = "time" -> time # "None"

ResourceParams == {"cpus", "mem", "time"}

\* ---- C18 as stated: for each of the five interfaces and each of cpus,
\* memory and walltime, the launch command carries the parameter's flag if
\* and only if the parameter is non-default.
C18_FlagIffNonDefault ==
    Reached("launched") =>
        \A param \in ResourceParams : HasFlag(LaunchCommandSent, param) <=> NonDefault(param)

\* ---- C18 amended: for pbs, sge and slurm the launch command carries the
\* flag of cpus, memory or walltime if and only if that parameter is
\* non-default; the commands of local and ssh never carry a resource flag.
C18_FlagIffNonDefaultForSchedulers ==
    Reached("launched") =>
        \A param \in ResourceParams :
            HasFlag(LaunchCommandSent, param) <=>
                (interface \in Schedulers /\ NonDefault(param))

\* a scheduler command was built with one parameter non-default and another
\* at its default
C18_Witness ==
    /\ Reached("launched") /\ interface = "sge"
    /\ cpus = 2 /\ mem = "None" /\ time # "None"
    /\ HasFlag(LaunchCommandSent, "cpus") /\ ~HasFlag(LaunchCommandSent, "mem")

\* the processes of this kind among the ones tunnel_connection has spawned
Spawned(kind) == {i \in 1..Len(procs) : procs[i].kind = kind}

\* the '-L' that carries port `name` between the two loopback addresses
LoopbackForward(name) ==
    [bind_addr |-> "127.0.0.1", bind |-> connection_info[name],
     to_addr |-> "127.0.0.1", to |-> connection_info[name]]

\* ---- C19: every tunnel process is one ssh that forwards exactly the five
\* ports of PORT_NAMES, each from 127.0.0.1:port to the same port on the
\* remote loopback; every build spawns one such process; and self.tunnels
\* never holds more than one tunnel process.
C19_OneTunnelCarriesFivePorts ==
    /\ Cardinality(DOMAIN tunnels) <= 1
    /\ Cardinality(Spawned("tunnel")) = Cardinality(Spawned("preaccept"))
    /\ \A i \in Spawned("tunnel") :
          LET f == procs[i].cmd.forwards
          IN  /\ Len(f) = 5
              /\ Len(PORT_NAMES) = 5
              /\ \A k \in 1..5 : f[k] = LoopbackForward(PORT_NAMES[k])
              /\ \A k, l \in 1..5 : k # l => f[k].bind # f[l].bind

\* the tunnel has been rebuilt and the new process is the one tracked
C19_Witness ==
    /\ Len(procs) >= 4
    /\ DOMAIN tunnels = {"tunnel"}
    /\ tunnels["tunnel"] = 4
    /\ procs[4].alive

\* ---- C20: for sge, once the banner 'Establishing builtin session to host
\* H ...' has been matched in the scheduler's output (every output of
\* SgeOutputs that matches carries it), self.host is exactly H.
C20_SgeHostIsBannerHost ==
    (interface = "sge" /\ Reached("launched")) => host = << <<"H">> >>

\* the lines sent into the session by start_kernel: the last ones sent
StartKernelSent ==
    LET n == Len(connection.sent)
        k == Len(start_kernel_lines(kernel_cmd, precmd))
    IN  SubSeq(connection.sent, n - k + 1, n)

\* where start_kernel sent a line of this kind (0: it did not)
SentAt(kind) ==
    LET at == {i \in 1..Len(StartKernelSent) : StartKernelSent[i].line = kind}
    IN  IF at = {} THEN 0 ELSE Max(at)

\* the kinds of line of start_kernel in the order of the specification
StartKernelOrder ==
    <<"cd", "mkdir -p", "echo >", precmd, "kernel_init", "rm -f", "exit">>

\* ---- C22: the lines of start_kernel reach the session in the order change
\* directory, create the descriptor directory, write the descriptor, the
\* pre-command if any, the service command, removal of the descriptor,
\* exit; when the service command names the descriptor, the descriptor is
\* written before the service command and the last removal comes after it.
C22_StartKernelOrder ==
    Reached("service") =>
        /\ \A a, b \in 1..Len(StartKernelOrder) :
              (a < b /\ SentAt(StartKernelOrder[a]) # 0 /\ SentAt(StartKernelOrder[b]) # 0)
                  => SentAt(StartKernelOrder[a]) < SentAt(StartKernelOrder[b])
        /\ SentAt("cd") = 1
        /\ SentAt("kernel_init") # 0
        /\ SentAt("exit") = Len(StartKernelSent)
        /\ (precmd # "") <=> (SentAt(precmd) # 0)
        /\ kernel_cmd.hcf =>
              /\ SentAt("mkdir -p") # 0
              /\ SentAt("echo >") # 0 /\ SentAt("echo >") < SentAt("kernel_init")
              /\ SentAt("rm -f") > SentAt("kernel_init")
        /\ ~kernel_cmd.hcf =>
              SentAt("mkdir -p") = 0 /\ SentAt("echo >") = 0 /\ SentAt("rm -f") = 0

\* start_kernel ran with a descriptor and a pre-command
C22_Witness ==
    /\ Reached("service") /\ kernel_cmd.hcf /\ precmd # ""
    /\ Len(StartKernelSent) = 8

\* C23: once the orchestrator object is destroyed, whether its launch failed
\* or its supervision ended, a connection file that did not exist before and
\* that the constructor created is gone from the disk, and the local helper
\* process of the SSH filesystem bridge is not running.
C23_ArtifactsReleased ==
    lpc = "deleted" => /\ _delcf => ~cf_on_disk
                       /\ sshfs_proc # "running"

C25_EveryPromptAnswered ==
    SSH_ASKPASS = "set" =>
        \A i \in 1..Len(dialogue) :
            dialogue[i] = "prompt" => i < Len(dialogue) /\ dialogue[i + 1] = "secret"

\* the position of the first `what` in the dialogue, 0 if there is none
FirstHeard(what) ==
    LET at == {i \in 1..Len(dialogue) : dialogue[i] = what}
    IN  IF at = {} THEN 0 ELSE Min(at)

\* the hostname query is among the lines sent to the session
QuerySent == \E i \in 1..Len(connection.sent) : connection.sent[i] = Line("echo Running on")

C27_CallerMappingUnchanged ==
    /\ caller_info = Ports
    /\ connection_file = "None" => connection_info = caller_info

C27_Witness ==
    /\ connection_file # "None"
    /\ ~_delcf
    /\ tick.rebuilt
    /\ Cardinality(Spawned("tunnel")) >= 2

\* C28: when no tunnel was built (the Local adapter, or tunnel = False), the
\* tunnel check of a keep_alive iteration does not fail for the lack of a
\* tunnel: the loop is never left with a KeyError.
C28_SupervisionWithoutTunnel ==
    "tunnel" \notin DOMAIN tunnels => exc # "KeyError"

\* ------------------------------------------------ keep_alive (SpecFair)

\* ---- C21: while the session stays alive no read of its output holds the
\* loop: whenever keep_alive is in readlines() with the session alive, it
\* leaves readlines() (back to the checks of the loop) or the session ends,
\* also when the session keeps writing.
C21_ReadNeverHoldsLoop ==
    [](connAlive /\ pc = "readlines" => <>(pc # "readlines" \/ ~connAlive))
\* ------------------------------------------ the session's end (SpecLaunchFair)

\* C29: once the remote kernel has exited, the process of the session
\* eventually exits too, with every adapter and with jump hosts as well, so
\* that keep_alive eventually sees the session gone.
C29_SessionEndsWithService ==
    [](service = "exited" => <>(~connection.alive))

====
